---- MODULE Spec2Model ----
(***************************************************************************)
(* A model of flyctl's machine scaling (v2ScaleVM) and of the Tigris       *)
(* statics push of a machine deployment (machines_tigrisstatics.go).       *)
(*                                                                         *)
(* Each subsystem has its own specification over the shared variables:     *)
(*   SpecScale      v2ScaleVM: leases, the per-machine loop                *)
(* A specification leaves the variables of the other subsystems idle.      *)
(***************************************************************************)
EXTENDS Integers, Sequences, FiniteSets, TLC

(***************************************************************************)
(* Bounds of the model.                                                    *)
(***************************************************************************)
\* Machines known to the platform for the app being scaled.
MaxMachines == 3
\* Keys one ListObjectsV2 call returns. The storage service returns at most
\* 1000 keys per call and the code never asks for a second page; the model
\* scales the page down, keeping it above staticsKeepVersions and at most
\* DeleteBatchSize.
ListMaxKeys == 4
\* Regular files in the local directory that uploadDirectory is given.
MaxFiles == 2
\* Release versions whose directories may be present in the bucket.
MaxVersion == 6
\* Characters of a guest path given to staticIsCandidateForTigrisPush.
MaxPathLen == 3
\* Entries of the [[statics]] section of the app configuration.
MaxStatics == 2
\* Tigris extensions the listing of add-ons shows before provisioning.
MaxAddOns == 2

VARIABLES
    \* ---- v2ScaleVM ----
    scPc,        \* position of v2ScaleVM
    scIn,        \* its arguments: [sizeName, memoryMB, group]
    scGroup,     \* the local variable group
    scMachines,  \* the local slice machines (sequence of machine ids)
    scNext,      \* index of the next machine AcquireLeases will lease
    scDeferred,  \* TRUE once `defer releaseFunc()` has been registered
    scLocal,     \* machine.Config.Guest of each machine, as mutated locally
    scErr,       \* the error v2ScaleVM returned ("nil" when none)
    mGroup,      \* platform: process group of each machine
    mGuest,      \* platform: the remote guest configuration of each machine
    lease        \* platform: holder of each machine's lease

scaleVars == <<scPc, scIn, scGroup, scMachines, scNext, scDeferred, scLocal,
               scErr, mGroup, mGuest, lease>>

VARIABLES
    \* ---- the bucket ----
    bucket,      \* the object keys present in the Tigris bucket
    \* ---- uploadDirectory ----
    upPc,        \* position of uploadDirectory itself
    upFiles,     \* the regular files under localPath, in WalkDir order
    upFail,      \* per file: "ok", or the step that fails for it
    upQueue,     \* workQueue: the file names not yet taken (channel is closed)
    wPc,         \* position of each worker goroutine
    wFile,       \* the file a worker is working on
    wErr,        \* the error worker() returned to its goroutine
    wPutCtx,     \* whether workerCtx was cancelled when the PutObject was issued
    wgCount,     \* the WaitGroup counter
    workerErr,   \* the channel workerErr (capacity 1)
    cancelled,   \* workerCtx is cancelled
    upRet,       \* what uploadDirectory returned
    upCleared,   \* history: deleteDirectory(dest) returned nil
    upPuts,      \* history: PutObject calls issued, per file
    upLate       \* history: files taken from the queue after the cancellation

VARIABLES
    \* ---- deleteOldStatics ----
    retPc,       \* position of deleteOldStatics
    retCur,      \* currentVer
    retVersions, \* the slice versions
    retIdx,      \* index of the loop over versions
    retIgnore,   \* the slice ignore
    retErr,      \* the error returned
    retIssued,   \* history: versions whose directory delete was issued
    retListed,   \* history: the version numbers the listing gave
    retBucket0   \* history: the bucket when deleteOldStatics was called

VARIABLES
    \* ---- staticIsCandidateForTigrisPush ----
    candStatic,  \* the appconfig.Static given
    candDone,    \* the function has returned
    candResult,  \* what it returned
    \* ---- staticsInitialize, staticsPush, staticsCleanupAfterFailure ----
    pushPc,        \* position of the deployment's statics steps
    pushCtxDone,   \* the deployment's context is cancelled
    cfgStatics,    \* md.appConfig.Statics
    origStatics,   \* md.tigrisStatics.originalStatics
    tsBucket,      \* md.tigrisStatics.bucket
    tsRoot,        \* md.tigrisStatics.root
    pushVer,       \* md.releaseVersion
    pushIdx,       \* index of the loop over originalStatics
    staticNum,     \* the local variable staticNum
    pushErr,       \* the named result err of staticsPush
    pushPanic,     \* a panic is passing through staticsPush
    pushCleanups,  \* history: calls of staticsCleanupAfterFailure
    pushCleanupErr,\* history: what the cleanup's deleteDirectory returned
    pushCleanupDir \* history: the directory the cleanup deleted

VARIABLES
    \* ---- staticsEnsureBucketCreated ----
    ebPc,          \* position of staticsEnsureBucketCreated
    ebCall,        \* which call of staticsEnsureBucketCreated this is
    ebListed,      \* response.AddOns.Nodes of this call
    addOns,        \* platform: the Tigris extensions, in listing order
    ebIdx,         \* index of the loop over the listed extensions
    ebName,        \* the local variable bucketName
    ebDeferred,    \* the rollback closure has been deferred
    ebEnv,         \* shape of ext.Data.Environment of the created extension
    ebToken,       \* the credential sealed by staticsTokenizeTigrisSecrets
    ebAuth,        \* the result tokenizedAuth
    ebErr,         \* the result retErr
    ebCreateCalls, \* history: calls of ProvisionExtension, name and result
    ebUpdateCalls, \* history: number of calls of gql.UpdateAddOn
    ebCreated,     \* history: names of the extensions this call created
    ebDeleteIssued \* history: names given to DeleteAddOn

VARIABLES
    \* ---- staticsFinalize ----
    finRet,        \* what staticsFinalize returned ("none" before it has)
    finLogged      \* "Failed to delete old statics" was written

VARIABLES
    \* ---- a deployment of a newer release running beside deleteOldStatics ----
    raceVer,       \* the release the other deployment pushes (0: there is none)
    racePuts       \* the keys its upload workers have stored so far

VARIABLES
    \* ---- one call of deleteDirectory ----
    delPc,         \* "idle", "call" or "returned"
    delDir,        \* the directory it is given
    delBefore,     \* the bucket when it was called
    delErr         \* what it returned ("none" before it has)

bucketVars == <<bucket>>
tsVars == <<tsBucket>>
finVars == <<finRet, finLogged>>
raceVars == <<raceVer, racePuts>>
delVars == <<delPc, delDir, delBefore, delErr>>
ensureVars == <<ebPc, ebCall, addOns, ebListed, ebIdx, ebName, ebDeferred, ebEnv,
                ebToken, ebAuth, ebErr, ebCreateCalls, ebCreated, ebUpdateCalls,
                ebDeleteIssued>>
candVars == <<candStatic, candDone, candResult>>
pushVars == <<pushPc, pushCtxDone, cfgStatics, origStatics, tsRoot, pushVer,
              pushIdx, staticNum, pushErr, pushPanic, pushCleanups,
              pushCleanupErr, pushCleanupDir>>
retVars == <<retPc, retCur, retVersions, retIdx, retIgnore, retErr, retIssued,
             retListed, retBucket0>>
uploadVars == <<upPc, upFiles, upFail, upQueue, wPc, wFile, wErr, wPutCtx,
                wgCount, workerErr, cancelled, upRet, upCleared, upPuts, upLate>>

vars == <<scaleVars, bucketVars, uploadVars, retVars, candVars, pushVars, tsVars,
          ensureVars, finVars, raceVars, delVars>>

\* What a specification leaves alone.
notScale == <<bucketVars, uploadVars, retVars, candVars, pushVars, tsVars, ensureVars,
             finVars, raceVars, delVars>>
notUpload == <<scaleVars, retVars, candVars, pushVars, tsVars, ensureVars, finVars, raceVars, delVars>>
notRetention == <<scaleVars, uploadVars, candVars, pushVars, tsVars, ensureVars,
                 finVars, raceVars, delVars>>
notCandidate == <<scaleVars, bucketVars, uploadVars, retVars, pushVars, tsVars,
                  ensureVars, finVars, raceVars, delVars>>
notPush == <<scaleVars, uploadVars, retVars, candVars, ensureVars, finVars, raceVars, delVars>>
notEnsure == <<scaleVars, bucketVars, uploadVars, retVars, candVars, pushVars,
              finVars, raceVars, delVars>>
notFinalize == <<scaleVars, uploadVars, candVars, pushVars, tsVars, ensureVars,
                raceVars, delVars>>
notRace == <<scaleVars, uploadVars, candVars, pushVars, tsVars, ensureVars, finVars,
            delVars>>
notDelete == <<scaleVars, uploadVars, retVars, candVars, pushVars, tsVars, ensureVars,
              finVars, raceVars>>

(***************************************************************************)
(* v2ScaleVM (src/unnamed/part_000)                                        *)
(***************************************************************************)
MachineIds == 1..MaxMachines

\* Size names: "" (not given), two names fly.MachineGuest.SetSize accepts and
\* one it rejects.
ValidSizes == {"shared-cpu-1x", "performance-2x"}
SizeNames == {"", "bogus"} \cup ValidSizes
MemoryChoices == {0, 512}
GroupNames == {"app", "worker"}

\* CPUs of a named size (fly-go's presets), used by SetSize.
SizeCPUs(name) == IF name = "performance-2x" THEN 2 ELSE 1

Guests == [size : ValidSizes, mem : {256, 512}, cpus : {1, 2}]

\* (&fly.MachineGuest{}).SetSize(sizeName) fails on an unknown size name.
SetSizeErr(name) == name \notin ValidSizes

\* A lease is free, held by this invocation, or held by someone else.
LeaseHolders == {"none", "self", "other"}

ScaleStopped == {"returned", "exited"}

InitScale ==
    /\ scPc = "start"
    /\ scIn \in [sizeName : SizeNames, memoryMB : MemoryChoices,
                 group : {""} \cup {"app"}]
    /\ scGroup = scIn.group
    /\ scMachines = <<>>
    /\ scNext = 1
    /\ scDeferred = FALSE
    /\ scErr = "nil"
    /\ mGroup \in [MachineIds -> GroupNames]
    /\ mGuest \in [MachineIds -> {[size |-> "shared-cpu-1x", mem |-> 256, cpus |-> 1]}]
    /\ scLocal = mGuest
    /\ lease \in [MachineIds -> {"none", "other"}]

\* v2ScaleVM not running.
IdleScale ==
    /\ scPc = "idle"
    /\ scIn = [sizeName |-> "", memoryMB |-> 0, group |-> ""]
    /\ scGroup = ""
    /\ scMachines = <<>>
    /\ scNext = 1
    /\ scDeferred = FALSE
    /\ scErr = "nil"
    /\ mGroup = [m \in MachineIds |-> "app"]
    /\ mGuest = [m \in MachineIds |-> [size |-> "shared-cpu-1x", mem |-> 256, cpus |-> 1]]
    /\ scLocal = mGuest
    /\ lease = [m \in MachineIds |-> "none"]

\* The deferred releaseFunc: releases every lease this call acquired.
ReleaseAll(l) == [m \in MachineIds |-> IF l[m] = "self" THEN "none" ELSE l[m]]

\* `return nil, err`: deferred functions run, then the function has returned.
ScaleReturn(err) ==
    /\ scPc' = "returned"
    /\ scErr' = err
    /\ lease' = IF scDeferred THEN ReleaseAll(lease) ELSE lease

\* flapsutil.NewClientWithOptions, then the size-name validation.
ScaleValidate ==
    /\ scPc = "start"
    /\ \E clientErr \in BOOLEAN :
         IF clientErr
           THEN ScaleReturn("client")
           ELSE IF SetSizeErr(scIn.sizeName) /\ scIn.sizeName # ""
                  THEN ScaleReturn("badsize")
                  ELSE /\ scPc' = "validated"
                       /\ UNCHANGED <<scErr, lease>>
    /\ UNCHANGED <<scIn, scGroup, scMachines, scNext, scDeferred, scLocal,
                   mGroup, mGuest>>
    /\ UNCHANGED notScale

\* group == "": the app's configuration names the default process group, or
\* the app has several groups and the call fails.
ScaleResolveGroup ==
    /\ scPc = "validated"
    /\ IF scIn.group = ""
         THEN \E outcome \in {"err", "multi", "ok"} :
                IF outcome = "ok"
                  THEN /\ scGroup' = "app"
                       /\ scPc' = "grouped"
                       /\ UNCHANGED <<scErr, lease>>
                  ELSE /\ ScaleReturn(outcome)
                       /\ UNCHANGED scGroup
         ELSE /\ scPc' = "grouped"
              /\ UNCHANGED <<scGroup, scErr, lease>>
    /\ UNCHANGED <<scIn, scMachines, scNext, scDeferred, scLocal, mGroup, mGuest>>
    /\ UNCHANGED notScale

\* The machines of a group, in id order (lo.Filter keeps the order).
RECURSIVE FilterGroup(_, _)
FilterGroup(m, g) ==
    IF m > MaxMachines THEN <<>>
    ELSE (IF mGroup[m] = g THEN <<m>> ELSE <<>>) \o FilterGroup(m + 1, g)

listMachinesWithGroup(g) == FilterGroup(1, g)

ScaleList ==
    /\ scPc = "grouped"
    /\ \E listErr \in BOOLEAN :
         IF listErr
           THEN /\ ScaleReturn("list")
                /\ UNCHANGED scMachines
           ELSE LET ms == listMachinesWithGroup(scGroup) IN
                IF Len(ms) = 0
                  THEN /\ ScaleReturn("nomachines")
                       /\ UNCHANGED scMachines
                  ELSE /\ scMachines' = ms
                       /\ scPc' = "leasing"
                       /\ UNCHANGED <<scErr, lease>>
    /\ UNCHANGED <<scIn, scGroup, scNext, scDeferred, scLocal, mGroup, mGuest>>
    /\ UNCHANGED notScale

\* mach.AcquireLeases, one machine per step: the lease of the next machine is
\* taken when it is free; a lease held elsewhere fails the whole acquisition.
\* Either way AcquireLeases returns its release function, which v2ScaleVM
\* defers before it looks at the error.
ScaleAcquireLease ==
    /\ scPc = "leasing"
    /\ scNext <= Len(scMachines)
    /\ LET m == scMachines[scNext] IN
       IF lease[m] = "none"
         THEN /\ lease' = [lease EXCEPT ![m] = "self"]
              /\ scNext' = scNext + 1
              /\ UNCHANGED <<scPc, scDeferred, scErr>>
         ELSE /\ scDeferred' = TRUE
              /\ scPc' = "returned"
              /\ scErr' = "lease"
              /\ lease' = ReleaseAll(lease)
              /\ UNCHANGED scNext
    /\ UNCHANGED <<scIn, scGroup, scMachines, scLocal, mGroup, mGuest>>
    /\ UNCHANGED notScale

\* AcquireLeases returned without error: `defer releaseFunc()`.
ScaleDefer ==
    /\ scPc = "leasing"
    /\ scNext > Len(scMachines)
    /\ scDeferred' = TRUE
    /\ scPc' = "loop"
    /\ UNCHANGED <<scIn, scGroup, scMachines, scNext, scLocal, scErr, mGroup,
                   mGuest, lease>>
    /\ UNCHANGED notScale

\* The body of the per-machine loop for the first machine: the local
\* configuration is edited, CPUs forced to 2, and os.Exit(1) ends the process
\* before mach.Update. os.Exit runs no deferred function.
ScaleLoopBody ==
    /\ scPc = "loop"
    /\ LET m == scMachines[1]
           g0 == scLocal[m]
           g1 == IF scIn.sizeName # ""
                   THEN [g0 EXCEPT !.size = scIn.sizeName,
                                   !.cpus = SizeCPUs(scIn.sizeName)]
                   ELSE g0
           g2 == IF scIn.memoryMB > 0 THEN [g1 EXCEPT !.mem = scIn.memoryMB] ELSE g1
       IN  scLocal' = [scLocal EXCEPT ![m] = [g2 EXCEPT !.cpus = 2]]
    /\ scPc' = "exited"
    /\ UNCHANGED <<scIn, scGroup, scMachines, scNext, scDeferred, scErr, mGroup,
                   mGuest, lease>>
    /\ UNCHANGED notScale

NextScale ==
    \/ ScaleValidate
    \/ ScaleResolveGroup
    \/ ScaleList
    \/ ScaleAcquireLease
    \/ ScaleDefer
    \/ ScaleLoopBody

(***************************************************************************)
(* Object keys.  A key is a sequence of tokens: "/" is the separator, "F"  *)
(* stands for the literal "fly-statics", every other token is one          *)
(* character.  Prefix tests and ordering are those of the byte strings.    *)
(***************************************************************************)
Digits == <<"0", "1", "2", "3", "4", "5", "6", "7", "8", "9">>

\* Tokens in byte order ("F" begins with 'f').
Alphabet == <<"/">> \o Digits \o <<"a", "b", "d", "F", "o", "t", "w", "x", "y", "z">>

Rank(t) == CHOOSE i \in 1..Len(Alphabet) : Alphabet[i] = t

IsDigit(t) == \E i \in 1..10 : Digits[i] = t
DigitVal(t) == (CHOOSE i \in 1..10 : Digits[i] = t) - 1

\* fmt.Sprintf("%d", n) for n >= 0.
RECURSIVE Itoa(_)
Itoa(n) == IF n < 10 THEN <<Digits[n + 1]>>
           ELSE Itoa(n \div 10) \o <<Digits[(n % 10) + 1]>>

\* strconv.Atoi on the tokens of the model (no sign characters): the error
\* flag and the value.
AtoiOk(str) == Len(str) > 0 /\ \A i \in 1..Len(str) : IsDigit(str[i])
RECURSIVE AtoiVal(_)
AtoiVal(str) == IF str = <<>> THEN 0
                ELSE AtoiVal(SubSeq(str, 1, Len(str) - 1)) * 10 + DigitVal(str[Len(str)])

\* strings.HasPrefix(k, p)
HasPrefix(k, p) == Len(p) <= Len(k) /\ SubSeq(k, 1, Len(p)) = p

\* Byte order of two keys.
RECURSIVE KeyLess(_, _)
KeyLess(a, b) ==
    IF a = <<>> THEN b # <<>>
    ELSE IF b = <<>> THEN FALSE
    ELSE IF a[1] = b[1] THEN KeyLess(Tail(a), Tail(b))
    ELSE Rank(a[1]) < Rank(b[1])

\* A finite set of keys as the sequence in byte order.
RECURSIVE SortKeys(_)
SortKeys(S) ==
    IF S = {} THEN <<>>
    ELSE LET least == CHOOSE k \in S : \A j \in S \ {k} : KeyLess(k, j)
         IN  <<least>> \o SortKeys(S \ {least})

FirstN(q, n) == SubSeq(q, 1, IF Len(q) < n THEN Len(q) ELSE n)
SeqRange(q) == {q[i] : i \in 1..Len(q)}

\* path.Clean on paths without "." and ".." elements: runs of separators
\* collapse and a trailing separator goes.
RECURSIVE CollapseSlashes(_)
CollapseSlashes(str) ==
    IF Len(str) < 2 THEN str
    ELSE IF str[1] = "/" /\ str[2] = "/" THEN CollapseSlashes(Tail(str))
    ELSE <<str[1]>> \o CollapseSlashes(Tail(str))

PathClean(str) ==
    LET c == CollapseSlashes(str)
    IN  IF Len(c) > 1 /\ c[Len(c)] = "/" THEN SubSeq(c, 1, Len(c) - 1) ELSE c

\* path.Join(a, b)
PathJoin(a, b) == PathClean(a \o <<"/">> \o b)

\* The application of the deployment.
AppName == <<"a">>

\* fmt.Sprintf("%s-statics", md.appConfig.AppName)
BaseBucketName(app) == app \o <<"-", "statics">>

\* fmt.Sprintf("fly-statics/%s/%d", appName, version): tigrisStatics.root
StaticsRoot(app, ver) == <<"F", "/">> \o app \o <<"/">> \o Itoa(ver)

\* fmt.Sprintf("%s/%d/", root, staticNum): the destination of one static
StaticDest_NoNumber(root, num) == root \o <<"/">>
StaticDest(root, num) == root \o <<"/">> \o Itoa(num) \o <<"/">>

(***************************************************************************)
(* The bucket and deleteDirectory                                          *)
(***************************************************************************)
\* lo.Chunk(objectIdentifiers, 1000)
DeleteBatchSize == 1000

\* The keys of a bucket under a prefix.
KeysUnder(b, prefix) == {k \in b : HasPrefix(k, prefix)}

\* ListObjectsV2(Prefix: prefix): the first page of the keys under the
\* prefix, in key order.
ListObjects(b, prefix) ==
    FirstN(SortKeys(KeysUnder(b, prefix)), ListMaxKeys)

\* The DeleteObjects calls over the listed keys, batch by batch: a call that
\* fails ends deleteDirectory with its error (the failed call may or may not
\* have removed its batch).  The set of possible outcomes.
RECURSIVE DeleteBatches(_, _)
DeleteBatches(b, keys) ==
    IF keys = <<>> THEN {[b |-> b, err |-> "nil"]}
    ELSE LET batch == SeqRange(FirstN(keys, DeleteBatchSize))
             rest == SubSeq(keys, Len(FirstN(keys, DeleteBatchSize)) + 1, Len(keys))
         IN  {[b |-> b, err |-> "delete"], [b |-> b \ batch, err |-> "delete"]}
               \cup DeleteBatches(b \ batch, rest)

\* The prefix deleteDirectory lists: dir with "/" appended unless it ends in one.
DirPrefix_AsGiven(dir) == dir
DirPrefix(dir) == IF Len(dir) > 0 /\ dir[Len(dir)] = "/" THEN dir ELSE dir \o <<"/">>

\* deleteDirectory(ctx, dir): every outcome, as the bucket left and the error.
deleteDirectory(b, dir) ==
    {[b |-> b, err |-> "list"]} \cup DeleteBatches(b, ListObjects(b, DirPrefix(dir)))

IdleBucket == bucket = {}

\* Objects of release 1 of the application, of its releases 10 and 11, of
\* its release 2, of an application whose name begins with this one's, and
\* an object whose key is the name of the release's directory itself.
DeleteKeys ==
    { StaticsRoot(AppName, 1) \o <<"/", "0", "/", "x">>,
      StaticsRoot(AppName, 1) \o <<"/", "1", "/", "x">>,
      StaticsRoot(AppName, 10) \o <<"/", "0", "/", "x">>,
      StaticsRoot(AppName, 11) \o <<"/", "0", "/", "x">>,
      StaticsRoot(AppName, 2) \o <<"/", "0", "/", "x">>,
      StaticsRoot(AppName \o <<"b">>, 1) \o <<"/", "0", "/", "x">>,
      StaticsRoot(AppName, 1) }

\* The directories deleteDirectory is called with: the root of a release
\* (staticsCleanupAfterFailure), a release's directory with its trailing "/"
\* (deleteOldStatics), the destination of a static (uploadDirectory).
DeleteDirs ==
    { StaticsRoot(AppName, 1),
      StaticsRoot(AppName, 1) \o <<"/">>,
      StaticsRoot(AppName, 10),
      StaticsRoot(AppName, 2) \o <<"/">>,
      StaticDest(StaticsRoot(AppName, 1), 1) }

InitDelete ==
    /\ delPc = "call"
    /\ delDir \in DeleteDirs
    /\ bucket \in SUBSET DeleteKeys
    /\ delBefore = bucket
    /\ delErr = "none"

IdleDelete ==
    /\ delPc = "idle"
    /\ delDir = <<>>
    /\ delBefore = {}
    /\ delErr = "none"

\* deleteDirectory(ctx, dir), from the call to its return.
DeleteCall ==
    /\ delPc = "call"
    /\ \E o \in deleteDirectory(bucket, delDir) :
         /\ bucket' = o.b
         /\ delErr' = o.err
    /\ delPc' = "returned"
    /\ UNCHANGED <<delDir, delBefore>>
    /\ UNCHANGED notDelete

NextDelete == DeleteCall

(***************************************************************************)
(* uploadDirectory                                                         *)
(***************************************************************************)
\* for i := 0; i < 5; i++ { go worker }
NumWorkers == 5
Workers == 1..NumWorkers

\* Names of the regular files a local directory may hold, in WalkDir order.
FileNames == <<<<"d", "/", "z">>, <<"w">>, <<"x">>, <<"y">>>>
LocalFiles == {FileNames[i] : i \in 1..MaxFiles}

\* The destination of the upload: static 0 of release 1.
UpDest == StaticDest(StaticsRoot(AppName, 1), 0)

\* Objects a previous push may have left under the destination: more than
\* one listing page of them.
MaxStale == ListMaxKeys + 1
StaleKeys == <<UpDest \o <<"x">>>> \o [i \in 1..MaxStale |-> UpDest \o <<"o">> \o Itoa(i)]
StaleChoices == {SeqRange(FirstN(StaleKeys, n)) : n \in {0, 2, MaxStale + 1}}

\* An object of the same release outside the destination.
OutsideKey == StaticDest(StaticsRoot(AppName, 1), 1) \o <<"x">>

\* The key PutObject is given for a file: path.Join(dest, file)
PutKey_FileOnly(dest, file) == file
PutKey(dest, file) == PathJoin(dest, file)

\* The directories fs.WalkDir meets on its way to the files.
DirsOf(files) ==
    UNION {{SubSeq(f, 1, i - 1) : i \in {j \in 2..Len(f) : f[j] = "/"}} : f \in files}

\* What fs.WalkDir visits, in lexical order, and the names its callback
\* keeps: the entries that are no directories.
WalkEntries(files) == SortKeys(SeqRange(files) \cup DirsOf(SeqRange(files)))
WalkedFiles(files) ==
    SelectSeq(WalkEntries(files), LAMBDA e : e \notin DirsOf(SeqRange(files)))

FailModes == {"ok", "open", "put"}

InitUpload ==
    /\ upPc = "clear"
    /\ \E fs \in SUBSET LocalFiles : upFiles = SortKeys(fs)
    /\ upFail \in [SeqRange(upFiles) -> FailModes]
    /\ \E prior \in StaleChoices : bucket = prior \cup {OutsideKey}
    /\ upQueue = <<>>
    /\ wPc = [w \in Workers |-> "unborn"]
    /\ wFile = [w \in Workers |-> <<>>]
    /\ wErr = [w \in Workers |-> "nil"]
    /\ wPutCtx = [w \in Workers |-> FALSE]
    /\ wgCount = 0
    /\ workerErr = <<>>
    /\ cancelled = FALSE
    /\ upRet = "none"
    /\ upCleared = FALSE
    /\ upPuts = [f \in SeqRange(upFiles) |-> 0]
    /\ upLate = {}

\* uploadDirectory not running.
IdleUpload ==
    /\ upPc = "idle"
    /\ upFiles = <<>>
    /\ upFail = <<>>
    /\ upQueue = <<>>
    /\ wPc = [w \in Workers |-> "unborn"]
    /\ wFile = [w \in Workers |-> <<>>]
    /\ wErr = [w \in Workers |-> "nil"]
    /\ wPutCtx = [w \in Workers |-> FALSE]
    /\ wgCount = 0
    /\ workerErr = <<>>
    /\ cancelled = FALSE
    /\ upRet = "none"
    /\ upCleared = FALSE
    /\ upPuts = <<>>
    /\ upLate = {}

\* if err := client.deleteDirectory(ctx, dest); err != nil { return err }
UpClearFailed_Ignored(err) == FALSE
UpClearFailed(err) == err # "nil"

\* client.deleteDirectory(ctx, dest); an error is returned at once.
UpClear ==
    /\ upPc = "clear"
    /\ \E o \in deleteDirectory(bucket, UpDest) :
         /\ bucket' = o.b
         /\ IF ~UpClearFailed(o.err)
              THEN /\ upPc' = "walk"
                   /\ upCleared' = (o.err = "nil")
                   /\ UNCHANGED upRet
              ELSE /\ upPc' = "returned"
                   /\ upRet' = <<o.err, <<>>>>
                   /\ UNCHANGED upCleared
    /\ UNCHANGED <<upFiles, upFail, upQueue, wPc, wFile, wErr, wPutCtx, wgCount,
                   workerErr, cancelled, upPuts, upLate>>
    /\ UNCHANGED notUpload

\* fs.WalkDir collects the regular files (or fails); the queue is filled and
\* closed; five goroutines are started, each after wg.Add(1).
UpWalkAndSpawn ==
    /\ upPc = "walk"
    /\ \E walkErr \in BOOLEAN :
         IF walkErr
           THEN /\ upPc' = "returned"
                /\ upRet' = <<"walk", <<>>>>
                /\ UNCHANGED <<upQueue, wPc, wgCount>>
           ELSE /\ upQueue' = WalkedFiles(upFiles)
                /\ wPc' = [w \in Workers |-> "loop"]
                /\ wgCount' = NumWorkers
                /\ upPc' = "wait"
                /\ UNCHANGED upRet
    /\ UNCHANGED <<bucket, upFiles, upFail, wFile, wErr, wPutCtx, workerErr,
                   cancelled, upCleared, upPuts, upLate>>
    /\ UNCHANGED notUpload

\* worker() returns err: the deferred wg.Done() runs, and the goroutine is left
\* holding the error it has yet to send.
WorkerReturns(w, err) ==
    /\ wgCount' = wgCount - 1
    /\ wErr' = [wErr EXCEPT ![w] = err]
    /\ wPc' = [wPc EXCEPT ![w] = IF err = "nil" THEN "exit" ELSE "send"]

\* `for file := range workQueue`: the next file is received and opened, and
\* its content type found; the closed, empty queue ends the loop.
WorkerTake(w) ==
    /\ wPc[w] = "loop"
    /\ IF upQueue = <<>>
         THEN /\ WorkerReturns(w, "nil")
              /\ UNCHANGED <<upQueue, wFile, upLate>>
         ELSE LET file == Head(upQueue) IN
              /\ upQueue' = Tail(upQueue)
              /\ upLate' = IF cancelled THEN upLate \cup {file} ELSE upLate
              /\ wFile' = [wFile EXCEPT ![w] = file]
              /\ IF upFail[file] = "open"
                   THEN WorkerReturns(w, <<"open", file>>)
                   ELSE /\ wPc' = [wPc EXCEPT ![w] = "opened"]
                        /\ UNCHANGED <<wgCount, wErr>>
    /\ UNCHANGED <<bucket, upPc, upFiles, upFail, wPutCtx, workerErr, cancelled,
                   upRet, upCleared, upPuts>>
    /\ UNCHANGED notUpload

\* client.s3.PutObject(workerCtx, ...) is issued.
WorkerPutIssue(w) ==
    /\ wPc[w] = "opened"
    /\ wPc' = [wPc EXCEPT ![w] = "putting"]
    /\ wPutCtx' = [wPutCtx EXCEPT ![w] = cancelled]
    /\ upPuts' = [upPuts EXCEPT ![wFile[w]] = @ + 1]
    /\ UNCHANGED <<bucket, upPc, upFiles, upFail, upQueue, wFile, wErr, wgCount,
                   workerErr, cancelled, upRet, upCleared, upLate>>
    /\ UNCHANGED notUpload

\* PutObject returns.  Issued on a cancelled context it fails without
\* sending; a file whose upload fails stores nothing; a call in flight when
\* the context is cancelled may be aborted, with the object stored or not;
\* otherwise the object is stored under its key.
WorkerPutDone(w) ==
    /\ wPc[w] = "putting"
    /\ LET file == wFile[w]
           key == PutKey(UpDest, file)
       IN  \/ /\ wPutCtx[w]
              /\ WorkerReturns(w, <<"ctx", file>>)
              /\ UNCHANGED bucket
           \/ /\ ~wPutCtx[w]
              /\ upFail[file] = "put"
              /\ WorkerReturns(w, <<"put", file>>)
              /\ UNCHANGED bucket
           \/ /\ ~wPutCtx[w]
              /\ upFail[file] = "ok"
              /\ bucket' = bucket \cup {key}
              /\ wPc' = [wPc EXCEPT ![w] = "loop"]
              /\ UNCHANGED <<wgCount, wErr>>
           \/ /\ ~wPutCtx[w]
              /\ cancelled
              /\ WorkerReturns(w, <<"ctx", file>>)
              /\ \E stored \in BOOLEAN :
                   bucket' = IF stored /\ upFail[file] = "ok"
                               THEN bucket \cup {key} ELSE bucket
    /\ UNCHANGED <<upPc, upFiles, upFail, upQueue, wFile, wPutCtx, workerErr,
                   cancelled, upRet, upCleared, upPuts, upLate>>
    /\ UNCHANGED notUpload

\* `workerErr <- err`: blocks while the one-slot channel is full.
WorkerSend(w) ==
    /\ wPc[w] = "send"
    /\ Len(workerErr) < 1
    /\ workerErr' = Append(workerErr, wErr[w])
    /\ wPc' = [wPc EXCEPT ![w] = "cancel"]
    /\ UNCHANGED <<bucket, upPc, upFiles, upFail, upQueue, wFile, wErr, wPutCtx,
                   wgCount, cancelled, upRet, upCleared, upPuts, upLate>>
    /\ UNCHANGED notUpload

\* cancelWorkers() by the goroutine that sent its error.
WorkerCancel(w) ==
    /\ wPc[w] = "cancel"
    /\ cancelled' = TRUE
    /\ wPc' = [wPc EXCEPT ![w] = "exit"]
    /\ UNCHANGED <<bucket, upPc, upFiles, upFail, upQueue, wFile, wErr, wPutCtx,
                   wgCount, workerErr, upRet, upCleared, upPuts, upLate>>
    /\ UNCHANGED notUpload

\* wg.Wait() returns once the counter is zero.
UpWait ==
    /\ upPc = "wait"
    /\ wgCount = 0
    /\ upPc' = "select"
    /\ UNCHANGED <<bucket, upFiles, upFail, upQueue, wPc, wFile, wErr, wPutCtx,
                   wgCount, workerErr, cancelled, upRet, upCleared, upPuts, upLate>>
    /\ UNCHANGED notUpload

\* The non-blocking receive from workerErr, then the deferred cancelWorkers().
UpSelect ==
    /\ upPc = "select"
    /\ IF workerErr # <<>>
         THEN /\ upRet' = Head(workerErr)
              /\ workerErr' = Tail(workerErr)
         ELSE /\ upRet' = "nil"
              /\ UNCHANGED workerErr
    /\ cancelled' = TRUE
    /\ upPc' = "returned"
    /\ UNCHANGED <<bucket, upFiles, upFail, upQueue, wPc, wFile, wErr, wPutCtx,
                   wgCount, upCleared, upPuts, upLate>>
    /\ UNCHANGED notUpload

NextUpload ==
    \/ UpClear
    \/ UpWalkAndSpawn
    \/ \E w \in Workers : WorkerTake(w)
    \/ \E w \in Workers : WorkerPutIssue(w)
    \/ \E w \in Workers : WorkerPutDone(w)
    \/ \E w \in Workers : WorkerSend(w)
    \/ \E w \in Workers : WorkerCancel(w)
    \/ UpWait
    \/ UpSelect

(***************************************************************************)
(* deleteOldStatics                                                        *)
(***************************************************************************)
staticsKeepVersions == 3

\* fmt.Sprintf("fly-statics/%s/", appName)
AppPrefix(app) == <<"F", "/">> \o app \o <<"/">>

\* fmt.Sprintf("fly-statics/%s/%d/", appName, version)
VersionDir(app, ver) == <<"F", "/">> \o app \o <<"/">> \o Itoa(ver) \o <<"/">>

\* Position of the first "/" of a string, 0 when it has none.
FirstSlash(str) ==
    IF \E i \in 1..Len(str) : str[i] = "/"
      THEN CHOOSE i \in 1..Len(str) : str[i] = "/" /\ \A j \in 1..(i - 1) : str[j] # "/"
      ELSE 0

\* What a delimited listing shows for a key: the common prefix up to the
\* first delimiter after the listed prefix, or the key itself.
RollUp(k, prefix) ==
    LET i == FirstSlash(SubSeq(k, Len(prefix) + 1, Len(k)))
    IN  IF i = 0 THEN k ELSE SubSeq(k, 1, Len(prefix) + i)

\* ListObjectsV2(Prefix: prefix, Delimiter: "/").CommonPrefixes: the common
\* prefixes among the first page of keys and common prefixes, in key order.
ListCommonPrefixes(b, prefix) ==
    LET page == FirstN(SortKeys({RollUp(k, prefix) : k \in KeysUnder(b, prefix)}),
                       ListMaxKeys)
    IN  SelectSeq(page, LAMBDA e : e[Len(e)] = "/")

\* strings.Split(str, "/")
RECURSIVE SplitSlash(_)
SplitSlash(str) ==
    LET i == FirstSlash(str)
    IN  IF i = 0 THEN <<str>>
        ELSE <<SubSeq(str, 1, i - 1)>> \o SplitSlash(SubSeq(str, i + 1, Len(str)))

\* The lo.FilterMap over the common prefixes: the number in the third part
\* of each prefix; a prefix with fewer parts or a non-number there is skipped.
RECURSIVE ParseVersions(_)
ParseVersions(prefixes) ==
    IF prefixes = <<>> THEN <<>>
    ELSE LET parts == SplitSlash(Head(prefixes))
         IN  (IF Len(parts) >= 3 /\ AtoiOk(parts[3])
                THEN <<AtoiVal(parts[3])>> ELSE <<>>)
               \o ParseVersions(Tail(prefixes))

\* if version > currentVer
IsTooNew_Never(version, currentVer) == FALSE
IsTooNew_OrEqual(version, currentVer) == version >= currentVer
IsTooNew(version, currentVer) == version > currentVer

\* slices.Sort then lo.Uniq
RECURSIVE SortInts(_)
SortInts(S) ==
    IF S = {} THEN <<>>
    ELSE LET least == CHOOSE v \in S : \A u \in S : v <= u
         IN  <<least>> \o SortInts(S \ {least})

\* versions[:len(versions)-staticsKeepVersions] when there are more than
\* staticsKeepVersions, nothing otherwise.
OldVersions_DropAll(sorted) == sorted
OldVersions_KeepOneLess(sorted) ==
    IF Len(sorted) > staticsKeepVersions - 1
      THEN SubSeq(sorted, 1, Len(sorted) - (staticsKeepVersions - 1))
      ELSE <<>>
OldVersions(sorted) ==
    IF Len(sorted) > staticsKeepVersions
      THEN SubSeq(sorted, 1, Len(sorted) - staticsKeepVersions)
      ELSE <<>>

Versions == 1..MaxVersion

\* The objects of one release: one object, or more than a listing page.
SmallDir(v) == {VersionDir(AppName, v) \o <<"0", "/", "x">>}
BigDir(v) == {VersionDir(AppName, v) \o <<"0", "/", "o">> \o Itoa(i) : i \in 1..MaxStale}

\* A directory under the application's root that names no version.
OtherDir == {AppPrefix(AppName) \o <<"t", "/", "0", "/", "x">>}

InitRetention ==
    /\ retPc = "list"
    /\ retCur \in Versions
    /\ \E present \in SUBSET Versions, big \in SUBSET Versions, other \in BOOLEAN :
         /\ big \subseteq present
         /\ Cardinality(big) <= 1
         /\ bucket = UNION {IF v \in big THEN BigDir(v) ELSE SmallDir(v) : v \in present}
                       \cup (IF other THEN OtherDir ELSE {})
    /\ retVersions = <<>>
    /\ retIdx = 1
    /\ retIgnore = {}
    /\ retErr = "none"
    /\ retIssued = {}
    /\ retListed = {}
    /\ retBucket0 = bucket

\* deleteOldStatics not running.
IdleRetention ==
    /\ retPc = "idle"
    /\ retCur = 0
    /\ retVersions = <<>>
    /\ retIdx = 1
    /\ retIgnore = {}
    /\ retErr = "none"
    /\ retIssued = {}
    /\ retListed = {}
    /\ retBucket0 = {}

\* The delimited listing of the application's root, and the version numbers
\* taken from its common prefixes.
RetList ==
    /\ retPc = "list"
    /\ \E listErr \in BOOLEAN :
         IF listErr
           THEN /\ retPc' = "returned"
                /\ retErr' = "list"
                /\ UNCHANGED <<retVersions, retListed>>
           ELSE /\ retVersions' = ParseVersions(ListCommonPrefixes(bucket, AppPrefix(AppName)))
                /\ retListed' = SeqRange(retVersions')
                /\ retPc' = "toonew"
                /\ UNCHANGED retErr
    /\ UNCHANGED <<bucket, retCur, retIdx, retIgnore, retIssued, retBucket0>>
    /\ UNCHANGED notRetention

\* One iteration of the loop over versions: a version above currentVer is
\* added to ignore and its directory deleted; a failed delete is returned.
RetTooNew ==
    /\ retPc = "toonew"
    /\ retIdx <= Len(retVersions)
    /\ LET v == retVersions[retIdx] IN
       IF IsTooNew(v, retCur)
         THEN /\ retIgnore' = retIgnore \cup {v}
              /\ retIssued' = retIssued \cup {v}
              /\ \E o \in deleteDirectory(bucket, VersionDir(AppName, v)) :
                   /\ bucket' = o.b
                   /\ IF o.err = "nil"
                        THEN /\ retIdx' = retIdx + 1
                             /\ UNCHANGED <<retPc, retErr>>
                        ELSE /\ retPc' = "returned"
                             /\ retErr' = o.err
                             /\ UNCHANGED retIdx
         ELSE /\ retIdx' = retIdx + 1
              /\ UNCHANGED <<bucket, retPc, retErr, retIgnore, retIssued>>
    /\ UNCHANGED <<retCur, retVersions, retListed, retBucket0>>
    /\ UNCHANGED notRetention

\* After the loop: the ignored versions are filtered out, the rest sorted and
\* made unique, and all but the last staticsKeepVersions are left to delete.
RetPlan ==
    /\ retPc = "toonew"
    /\ retIdx > Len(retVersions)
    /\ retVersions' = OldVersions(SortInts(SeqRange(retVersions) \ retIgnore))
    /\ retIdx' = 1
    /\ retPc' = "old"
    /\ UNCHANGED <<bucket, retCur, retIgnore, retErr, retIssued, retListed,
                   retBucket0>>
    /\ UNCHANGED notRetention

\* One iteration of the loop over the old versions.
RetDeleteOld ==
    /\ retPc = "old"
    /\ retIdx <= Len(retVersions)
    /\ LET v == retVersions[retIdx] IN
       /\ retIssued' = retIssued \cup {v}
       /\ \E o \in deleteDirectory(bucket, VersionDir(AppName, v)) :
            /\ bucket' = o.b
            /\ IF o.err = "nil"
                 THEN /\ retIdx' = retIdx + 1
                      /\ UNCHANGED <<retPc, retErr>>
                 ELSE /\ retPc' = "returned"
                      /\ retErr' = o.err
                      /\ UNCHANGED retIdx
    /\ UNCHANGED <<retCur, retVersions, retIgnore, retListed, retBucket0>>
    /\ UNCHANGED notRetention

\* return nil
RetDone ==
    /\ retPc = "old"
    /\ retIdx > Len(retVersions)
    /\ retPc' = "returned"
    /\ retErr' = "nil"
    /\ UNCHANGED <<bucket, retCur, retVersions, retIdx, retIgnore, retIssued,
                   retListed, retBucket0>>
    /\ UNCHANGED notRetention

NextRetention ==
    \/ RetList
    \/ RetTooNew
    \/ RetPlan
    \/ RetDeleteOld
    \/ RetDone

(***************************************************************************)
(* deleteOldStatics of one release beside the upload of a newer release    *)
(***************************************************************************)
\* The file names the other deployment uploads.
RaceFiles == {<<"x">>, <<"y">>}

\* The other deployment pushes a release above currentVer whose directory
\* does not exist yet; older releases are in the bucket.
InitRace ==
    /\ retPc = "list"
    /\ retCur \in Versions
    /\ raceVer \in {w \in Versions : w > retCur}
    /\ racePuts = {}
    /\ \E present \in SUBSET (Versions \ {raceVer}) :
         bucket = UNION {SmallDir(v) : v \in present}
    /\ retVersions = <<>>
    /\ retIdx = 1
    /\ retIgnore = {}
    /\ retErr = "none"
    /\ retIssued = {}
    /\ retListed = {}
    /\ retBucket0 = bucket

IdleRace ==
    /\ raceVer = 0
    /\ racePuts = {}

\* A worker of the other deployment's uploadDirectory stores one file under
\* its release's directory (PutObject with the key path.Join(dest, file)).
RacePut ==
    /\ raceVer # 0
    /\ \E file \in RaceFiles :
         LET key == PutKey(StaticDest(StaticsRoot(AppName, raceVer), 0), file) IN
         /\ key \notin racePuts
         /\ bucket' = bucket \cup {key}
         /\ racePuts' = racePuts \cup {key}
    /\ UNCHANGED raceVer
    /\ UNCHANGED <<retPc, retCur, retVersions, retIdx, retIgnore, retErr, retIssued,
                   retListed, retBucket0>>
    /\ UNCHANGED notRace

NextRace ==
    \/ NextRetention
    \/ RacePut

(***************************************************************************)
(* staticIsCandidateForTigrisPush                                          *)
(***************************************************************************)
\* Strings of at most n characters over a set of characters.
RECURSIVE StringsUpTo(_, _)
StringsUpTo(chars, n) ==
    IF n = 0 THEN {<<>>}
    ELSE LET shorter == StringsUpTo(chars, n - 1)
         IN  shorter \cup {<<c>> \o str : c \in chars, str \in shorter}

staticIsCandidateForTigrisPush_NoBucketCheck(static) ==
    IF Len(static.GuestPath) = 0 THEN FALSE
    ELSE static.GuestPath[1] # "/"

staticIsCandidateForTigrisPush(static) ==
    IF static.TigrisBucket # <<>> THEN FALSE
    ELSE IF Len(static.GuestPath) = 0 THEN FALSE
    ELSE IF static.GuestPath[1] = "/" THEN FALSE
    ELSE TRUE

InitCandidate ==
    /\ candStatic \in [GuestPath : StringsUpTo({"/", "a", "s"}, MaxPathLen),
                       UrlPrefix : {<<"/", "s">>},
                       TigrisBucket : {<<>>, <<"b">>},
                       IndexDocument : {<<>>}]
    /\ candDone = FALSE
    /\ candResult = FALSE

\* staticIsCandidateForTigrisPush not called.
IdleCandidate ==
    /\ candStatic = [GuestPath |-> <<>>, UrlPrefix |-> <<>>, TigrisBucket |-> <<>>,
                     IndexDocument |-> <<>>]
    /\ candDone = FALSE
    /\ candResult = FALSE

\* The call of staticIsCandidateForTigrisPush on the static.
CandidateCall ==
    /\ ~candDone
    /\ candDone' = TRUE
    /\ candResult' = staticIsCandidateForTigrisPush(candStatic)
    /\ UNCHANGED candStatic
    /\ UNCHANGED notCandidate

NextCandidate == CandidateCall

(***************************************************************************)
(* staticsInitialize, staticsPush, staticsCleanupAfterFailure              *)
(***************************************************************************)
\* The shapes of a [[statics]] entry: two relative guest paths, an absolute
\* one, one bound to a bucket of the user, and one with no guest path.
StaticShapes ==
    { [GuestPath |-> <<"a">>, UrlPrefix |-> <<"/", "a">>, TigrisBucket |-> <<>>,
       IndexDocument |-> <<"x">>],
      [GuestPath |-> <<"s">>, UrlPrefix |-> <<"/", "s">>, TigrisBucket |-> <<>>,
       IndexDocument |-> <<>>],
      [GuestPath |-> <<"/", "a">>, UrlPrefix |-> <<"/", "d">>, TigrisBucket |-> <<>>,
       IndexDocument |-> <<>>],
      [GuestPath |-> <<"a">>, UrlPrefix |-> <<"/", "b">>, TigrisBucket |-> <<"b">>,
       IndexDocument |-> <<>>],
      [GuestPath |-> <<>>, UrlPrefix |-> <<"/", "o">>, TigrisBucket |-> <<>>,
       IndexDocument |-> <<>>] }

StaticsConfigs == UNION {[1..n -> StaticShapes] : n \in 0..MaxStatics}

\* The bucket staticsEnsureBucketCreated gives when nothing is in its way.
StaticsBucketName == BaseBucketName(AppName)

\* lo.Filter(statics, !staticIsCandidateForTigrisPush)
NonCandidates_KeepAll(statics) == statics
NonCandidates(statics) ==
    SelectSeq(statics, LAMBDA st : ~staticIsCandidateForTigrisPush(st))

\* Releases being deployed, and what the bucket may hold when the push
\* starts: nothing, or an older release together with objects a failed push
\* of this release left behind, or several releases, one of them later than
\* this one.
PushVersions == {2, 4}
PushBuckets(ver) ==
    { {},
      SmallDir(1) \cup {StaticDest(StaticsRoot(AppName, ver), 0) \o <<"y">>,
                        StaticDest(StaticsRoot(AppName, ver), 1) \o <<"y">>},
      SmallDir(1) \cup SmallDir(2) \cup SmallDir(3) \cup SmallDir(5) }

InitPush ==
    /\ pushPc = "initialize"
    /\ pushCtxDone = FALSE
    /\ cfgStatics \in StaticsConfigs
    /\ origStatics = <<>>
    /\ tsBucket = <<>>
    /\ tsRoot = <<>>
    /\ pushVer \in PushVersions
    /\ bucket \in PushBuckets(pushVer)
    /\ pushIdx = 1
    /\ staticNum = 0
    /\ pushErr = "nil"
    /\ pushPanic = FALSE
    /\ pushCleanups = 0
    /\ pushCleanupErr = "none"
    /\ pushCleanupDir = <<>>

\* No deployment is pushing statics.
IdlePush ==
    /\ pushPc = "idle"
    /\ pushCtxDone = FALSE
    /\ cfgStatics = <<>>
    /\ origStatics = <<>>
    /\ tsRoot = <<>>
    /\ pushVer = 0
    /\ pushIdx = 1
    /\ staticNum = 0
    /\ pushErr = "nil"
    /\ pushPanic = FALSE
    /\ pushCleanups = 0
    /\ pushCleanupErr = "none"
    /\ pushCleanupDir = <<>>

\* The deployment's context is cancelled (at any moment).
PushCtxCancel ==
    /\ pushPc \in {"initialize", "push"}
    /\ ~pushCtxDone
    /\ pushCtxDone' = TRUE
    /\ UNCHANGED <<bucket, pushPc, cfgStatics, origStatics, tsBucket, tsRoot,
                   pushVer, pushIdx, staticNum, pushErr, pushPanic, pushCleanups,
                   pushCleanupErr, pushCleanupDir>>
    /\ UNCHANGED notPush

\* staticsInitialize: the bucket is ensured (or that fails, and nothing is
\* changed); the statics are saved and the candidates filtered out of the
\* configuration; the S3 client is built (or that fails); the root is set.
PushInitialize ==
    /\ pushPc = "initialize"
    /\ \E outcome \in {"bucketErr", "clientErr", "ok"} :
         /\ pushPc' = IF outcome = "ok" THEN "push" ELSE "initFailed"
         /\ IF outcome = "bucketErr"
              THEN UNCHANGED <<tsBucket, origStatics, cfgStatics>>
              ELSE /\ tsBucket' = StaticsBucketName
                   /\ origStatics' = cfgStatics
                   /\ cfgStatics' = NonCandidates(cfgStatics)
         /\ tsRoot' = IF outcome = "ok" THEN StaticsRoot(AppName, pushVer) ELSE tsRoot
    /\ UNCHANGED <<bucket, pushCtxDone, pushVer, pushIdx, staticNum, pushErr,
                   pushPanic, pushCleanups, pushCleanupErr, pushCleanupDir>>
    /\ UNCHANGED notPush

\* deleteDirectory under a context: a cancelled context fails the listing.
deleteDirectoryCtx(b, dir, ctxDone) ==
    IF ctxDone THEN {[b |-> b, err |-> "ctx"]} ELSE deleteDirectory(b, dir)

\* uploadDirectory(ctx, dest, localPath) as one call: every bucket it can
\* leave with what it returns ("nil", "err") or "panic" when a panic leaves
\* it.  A failed clearing is returned; after the clearing any subset of the
\* files may have been stored, and either result is possible for each.
uploadDirectory(b, dest, files, ctxDone) ==
    LET clears == deleteDirectoryCtx(b, dest, ctxDone)
        cleared == {o.b : o \in {c \in clears : c.err = "nil"}}
    IN  {[b |-> o.b, res |-> "err"] : o \in {c \in clears : c.err # "nil"}}
          \cup {[b |-> b1, res |-> "panic"] : b1 \in cleared \cup {b}}
          \cup {[b |-> b1 \cup {PutKey(dest, f) : f \in stored}, res |-> r] :
                  b1 \in cleared, stored \in SUBSET files, r \in {"nil", "err"}}

\* if err != nil || panicErr != nil
PushNeedsCleanup_ErrOnly(err, panicked) == err # "nil"
PushNeedsCleanup(err, panicked) == err # "nil" \/ panicked

\* The context of the cleanup's deleteDirectory: a fresh
\* context.WithTimeout(context.Background(), 5s), whatever the push's context.
CleanupCtxDone(ctxDone) == FALSE

\* One iteration of the loop of staticsPush: a static that is no candidate is
\* skipped; a candidate is uploaded to its numbered directory and, on
\* success, its bucket-backed entry appended to the configuration; an error
\* is returned and a panic leaves the loop.
PushStatic ==
    /\ pushPc = "push"
    /\ pushIdx <= Len(origStatics)
    /\ LET static == origStatics[pushIdx] IN
       IF ~staticIsCandidateForTigrisPush(static)
         THEN /\ pushIdx' = pushIdx + 1
              /\ UNCHANGED <<bucket, pushPc, cfgStatics, staticNum, pushErr, pushPanic>>
         ELSE LET dest == StaticDest(tsRoot, staticNum) IN
              /\ staticNum' = staticNum + 1
              /\ \E o \in uploadDirectory(bucket, dest, LocalFiles, pushCtxDone) :
                   /\ bucket' = o.b
                   /\ pushErr' = IF o.res = "err" THEN "upload" ELSE "nil"
                   /\ pushPanic' = (o.res = "panic")
                   /\ IF o.res = "nil"
                        THEN /\ cfgStatics' = Append(cfgStatics,
                                  [GuestPath |-> <<"/">> \o dest,
                                   UrlPrefix |-> static.UrlPrefix,
                                   TigrisBucket |-> tsBucket,
                                   IndexDocument |-> static.IndexDocument])
                             /\ pushIdx' = pushIdx + 1
                             /\ UNCHANGED pushPc
                        ELSE /\ pushPc' = "deferred"
                             /\ UNCHANGED <<cfgStatics, pushIdx>>
    /\ UNCHANGED <<pushCtxDone, origStatics, tsBucket, tsRoot, pushVer,
                   pushCleanups, pushCleanupErr, pushCleanupDir>>
    /\ UNCHANGED notPush

\* The loop is over: return nil.
PushLoopDone ==
    /\ pushPc = "push"
    /\ pushIdx > Len(origStatics)
    /\ pushPc' = "deferred"
    /\ UNCHANGED <<bucket, pushCtxDone, cfgStatics, origStatics, tsBucket, tsRoot,
                   pushVer, pushIdx, staticNum, pushErr, pushPanic, pushCleanups,
                   pushCleanupErr, pushCleanupDir>>
    /\ UNCHANGED notPush

\* The named result err after staticsCleanupAfterFailure: the cleanup has no
\* result and the deferred function does not assign err.
ErrAfterCleanup(err, cleanupErr) == err

\* The deferred function of staticsPush: after an error or a panic
\* staticsCleanupAfterFailure deletes tigrisStatics.root under its own context
\* (a failure is only logged); a panic is raised again.
PushDeferred ==
    /\ pushPc = "deferred"
    /\ IF PushNeedsCleanup(pushErr, pushPanic)
         THEN \E o \in deleteDirectoryCtx(bucket, tsRoot, CleanupCtxDone(pushCtxDone)) :
                /\ bucket' = o.b
                /\ pushCleanups' = pushCleanups + 1
                /\ pushCleanupErr' = o.err
                /\ pushCleanupDir' = tsRoot
         ELSE UNCHANGED <<bucket, pushCleanups, pushCleanupErr, pushCleanupDir>>
    /\ pushErr' = IF PushNeedsCleanup(pushErr, pushPanic)
                    THEN ErrAfterCleanup(pushErr, pushCleanupErr')
                    ELSE pushErr
    /\ pushPc' = IF pushPanic THEN "panicked" ELSE "returned"
    /\ UNCHANGED <<pushCtxDone, cfgStatics, origStatics, tsBucket, tsRoot, pushVer,
                   pushIdx, staticNum, pushPanic>>
    /\ UNCHANGED notPush

NextPush ==
    \/ PushCtxCancel
    \/ PushInitialize
    \/ PushStatic
    \/ PushLoopDone
    \/ PushDeferred

(***************************************************************************)
(* staticsEnsureBucketCreated, staticsTokenizeTigrisSecrets                *)
(***************************************************************************)
\* extension.Metadata of a listed extension: nil, a value that is no map, or
\* a map with or without the two statics keys (the app id of this app, of
\* another, or none; a string token, a value that is no string, or none).
MetaShapes ==
    {[kind |-> "nil", appId |-> "none", auth |-> "none"],
     [kind |-> "notmap", appId |-> "none", auth |-> "none"]}
      \cup [kind : {"map"}, appId : {"none", "this", "other"},
            auth : {"none", "nonstring", "tok"}]

\* Names of the extensions that exist before the call.
ExistingNames == <<<<"e", "1">>, <<"e", "2">>, <<"e", "3">>>>

\* haikunator.Haikunator().String(): one of a few random words.
Haikus == {"h1", "h2"}

\* fmt.Sprintf("%s-%s", *params.OverrideName, haiku)
SuffixedName(name, haiku) == name \o <<"-", haiku>>

\* fmt.Sprintf("%s.%s", md.tigrisStatics.bucket, tigrisHostname)
AllowedHost_BaseName(bucketName) == BaseBucketName(AppName) \o <<".", "fly.storage.tigris.dev">>
AllowedHost(bucketName) == bucketName \o <<".", "fly.storage.tigris.dev">>

\* The tokenizer.Secret that is sealed: write access for the organization and
\* the app, requests allowed to the bucket's host only.
SealedSecret(bucketName) ==
    [action |-> "write", org |-> "org", app |-> "this",
     hosts |-> {AllowedHost(bucketName)}]

NoToken == [action |-> "none", org |-> "none", app |-> "none", hosts |-> {}]

InitEnsure ==
    /\ ebPc = "list"
    /\ ebCall = 1
    /\ \E n \in 0..MaxAddOns : \E metas \in [1..n -> MetaShapes] :
         addOns = [i \in 1..n |-> [name |-> ExistingNames[i], meta |-> metas[i]]]
    /\ ebListed = <<>>
    /\ ebIdx = 1
    /\ ebName = <<>>
    /\ ebDeferred = FALSE
    /\ ebEnv = "none"
    /\ ebToken = NoToken
    /\ ebAuth = <<>>
    /\ ebErr = "nil"
    /\ ebCreateCalls = <<>>
    /\ ebCreated = {}
    /\ ebUpdateCalls = 0
    /\ ebDeleteIssued = {}
    /\ tsBucket = <<>>

\* staticsEnsureBucketCreated not running.
IdleEnsure ==
    /\ ebPc = "idle"
    /\ ebCall = 1
    /\ addOns = <<>>
    /\ ebListed = <<>>
    /\ ebIdx = 1
    /\ ebName = <<>>
    /\ ebDeferred = FALSE
    /\ ebEnv = "none"
    /\ ebToken = NoToken
    /\ ebAuth = <<>>
    /\ ebErr = "nil"
    /\ ebCreateCalls = <<>>
    /\ ebCreated = {}
    /\ ebUpdateCalls = 0
    /\ ebDeleteIssued = {}

IdleTs == tsBucket = <<>>

\* if retErr != nil, in the deferred closure
RollbackWanted(deferred, err) == deferred /\ err # "nil"

\* gql.DeleteAddOn(context.Background(), client, bucketName): the extension
\* is gone, or the call failed and it is still there.
AddOnsAfterDelete(exts, name) ==
    {exts, SelectSeq(exts, LAMBDA e : e.name # name)}

\* `return "", err`: the deferred rollback runs when it was registered.
EnsureReturnErr(err) ==
    /\ ebPc' = "returned"
    /\ ebErr' = err
    /\ ebAuth' = <<>>
    /\ IF RollbackWanted(ebDeferred, err)
         THEN /\ ebDeleteIssued' = ebDeleteIssued \cup {ebName}
              /\ addOns' \in AddOnsAfterDelete(addOns, ebName)
         ELSE UNCHANGED <<ebDeleteIssued, addOns>>

\* A panic leaves the function: the deferred closure runs with retErr still nil.
EnsurePanic ==
    /\ ebPc' = "panicked"
    /\ IF RollbackWanted(ebDeferred, ebErr)
         THEN /\ ebDeleteIssued' = ebDeleteIssued \cup {ebName}
              /\ addOns' \in AddOnsAfterDelete(addOns, ebName)
         ELSE UNCHANGED <<ebDeleteIssued, addOns>>
    /\ UNCHANGED <<ebErr, ebAuth>>

\* gql.ListAddOns(ctx, gqlClient, "tigris")
EnsureList ==
    /\ ebPc = "list"
    /\ \E listErr \in BOOLEAN :
         IF listErr
           THEN /\ EnsureReturnErr("list")
                /\ UNCHANGED ebListed
           ELSE /\ ebPc' = "scan"
                /\ ebListed' = addOns
                /\ UNCHANGED <<ebErr, ebAuth, ebDeleteIssued, addOns>>
    /\ UNCHANGED <<ebCall, ebIdx, ebName, ebDeferred, ebEnv, ebToken, ebCreateCalls,
                   ebCreated, ebUpdateCalls, tsBucket>>
    /\ UNCHANGED notEnsure

\* extension.Metadata.(map[string]interface{}): panics unless it is a map.
MetaIsMap(meta) == meta.kind = "map"

\* meta[staticsMetaTokenizedAuth].(string): panics unless it is a string.
AuthIsString(meta) == meta.auth = "tok"

\* The credential stored in the metadata of an extension.
StoredAuth(ext) == <<"tok", ext.name>>

\* One iteration of the loop over the listed extensions.
EnsureScan ==
    /\ ebPc = "scan"
    /\ ebIdx <= Len(ebListed)
    /\ LET ext == ebListed[ebIdx] IN
       IF ext.meta.kind = "nil"
         THEN /\ ebIdx' = ebIdx + 1
              /\ UNCHANGED <<ebPc, ebErr, ebAuth, ebDeleteIssued, addOns, tsBucket>>
       ELSE IF ~MetaIsMap(ext.meta)
         THEN /\ EnsurePanic
              /\ UNCHANGED <<ebIdx, tsBucket>>
       ELSE IF ext.meta.appId = "this"
         THEN /\ tsBucket' = ext.name
              /\ IF AuthIsString(ext.meta)
                   THEN /\ ebPc' = "returned"
                        /\ ebAuth' = StoredAuth(ext)
                        /\ UNCHANGED <<ebErr, ebDeleteIssued, addOns>>
                   ELSE EnsurePanic
              /\ UNCHANGED ebIdx
       ELSE /\ ebIdx' = ebIdx + 1
            /\ UNCHANGED <<ebPc, ebErr, ebAuth, ebDeleteIssued, addOns, tsBucket>>
    /\ UNCHANGED <<ebCall, ebListed, ebName, ebDeferred, ebEnv, ebToken,
                   ebCreateCalls, ebCreated, ebUpdateCalls>>
    /\ UNCHANGED notEnsure

\* client.GetOrganizationBySlug, after the loop found nothing.
EnsureGetOrg ==
    /\ ebPc = "scan"
    /\ ebIdx > Len(ebListed)
    /\ \E orgErr \in BOOLEAN :
         IF orgErr
           THEN EnsureReturnErr("org")
           ELSE /\ ebPc' = "provision"
                /\ UNCHANGED <<ebErr, ebAuth, ebDeleteIssued, addOns>>
    /\ UNCHANGED <<ebCall, ebListed, ebIdx, ebName, ebDeferred, ebEnv, ebToken,
                   ebCreateCalls, ebCreated, ebUpdateCalls, tsBucket>>
    /\ UNCHANGED notEnsure

\* The extension a successful ProvisionExtension leaves on the platform.
NewAddOn(name) == [name |-> name, meta |-> [kind |-> "nil", appId |-> "none", auth |-> "none"]]

\* strings.Contains(err.Error(), "already exists for app") ||
\* strings.Contains(err.Error(), "unavailable for creation")
IsNameCollision_Any(res) == res # "ok"
IsNameCollision(res) == res = "taken"

\* The error left after the retry: newErr is dropped, err is the first error.
ProvisionErr(first, retry) == first

\* extensions.ProvisionExtension under the name <app>-statics; when that
\* name is taken, once more under a haikunated name; any error that is left
\* is returned.  On success the bucket is recorded, the rollback deferred.
EnsureProvision ==
    /\ ebPc = "provision"
    /\ LET base == BaseBucketName(AppName) IN
       \E first \in {"ok", "taken", "other"}, haiku \in Haikus,
          retry \in {"ok", "failed"}, env \in {"ok", "notmap", "nokey"} :
         LET retried == first # "ok" /\ IsNameCollision(first)
             name == IF retried THEN SuffixedName(base, haiku) ELSE base
             ok == first = "ok" \/ (retried /\ retry = "ok")
         IN  /\ ~retried => (haiku = "h1" /\ retry = "ok")
             /\ ~ok => env = "ok"
             /\ ebName' = name
             /\ ebCreateCalls' =
                   IF retried
                     THEN <<[name |-> base, res |-> first], [name |-> name, res |-> retry]>>
                     ELSE <<[name |-> base, res |-> first]>>
             /\ IF ok
                  THEN /\ ebCreated' = ebCreated \cup {name}
                       /\ addOns' = Append(addOns, NewAddOn(name))
                       /\ tsBucket' = name
                       /\ ebDeferred' = TRUE
                       /\ ebEnv' = env
                       /\ ebPc' = "secrets"
                       /\ UNCHANGED <<ebErr, ebAuth, ebDeleteIssued>>
                  ELSE /\ ebPc' = "returned"
                       /\ ebErr' = ProvisionErr(first, retry)
                       /\ UNCHANGED <<ebCreated, addOns, tsBucket, ebDeferred, ebEnv,
                                      ebAuth, ebDeleteIssued>>
    /\ UNCHANGED <<ebCall, ebListed, ebIdx, ebToken, ebUpdateCalls>>
    /\ UNCHANGED notEnsure

\* secrets := ext.Data.Environment.(map[string]interface{}), then
\* staticsTokenizeTigrisSecrets: the org id is parsed, the app fetched, the
\* two keys read from the secrets and the secret sealed.
EnsureTokenize ==
    /\ ebPc = "secrets"
    /\ IF ebEnv = "notmap"
         THEN /\ EnsurePanic
              /\ UNCHANGED ebToken
         ELSE \E step \in {"orgId", "getApp", "seal", "ok"} :
                IF step \in {"orgId", "getApp"}
                  THEN /\ EnsureReturnErr(step)
                       /\ UNCHANGED ebToken
                ELSE IF ebEnv = "nokey"
                  THEN /\ EnsurePanic
                       /\ UNCHANGED ebToken
                ELSE IF step = "seal"
                  THEN /\ EnsureReturnErr(step)
                       /\ UNCHANGED ebToken
                ELSE /\ ebToken' = SealedSecret(tsBucket)
                     /\ ebPc' = "update"
                     /\ UNCHANGED <<ebErr, ebAuth, ebDeleteIssued, addOns>>
    /\ UNCHANGED <<ebCall, ebListed, ebIdx, ebName, ebDeferred, ebEnv, ebCreateCalls,
                   ebCreated, ebUpdateCalls, tsBucket>>
    /\ UNCHANGED notEnsure

\* The extension with the sealed credential and the app id in its metadata.
WithStaticsMeta(exts, name) ==
    [i \in 1..Len(exts) |->
        IF exts[i].name = name
          THEN [exts[i] EXCEPT !.meta = [kind |-> "map", appId |-> "this", auth |-> "tok"]]
          ELSE exts[i]]

\* gql.GetAddOn (its error is not looked at), then gql.UpdateAddOn with the
\* id it gave: the metadata is written and the credential returned, or the
\* update fails (as it does when the fetch gave no id) and its error is
\* returned.
EnsureUpdate ==
    /\ ebPc = "update"
    /\ ebUpdateCalls' = ebUpdateCalls + 1
    /\ \E getErr \in BOOLEAN, updateErr \in BOOLEAN :
         IF getErr \/ updateErr
           THEN EnsureReturnErr("update")
           ELSE /\ addOns' = WithStaticsMeta(addOns, ebName)
                /\ ebPc' = "returned"
                /\ ebAuth' = <<"tok", ebName>>
                /\ UNCHANGED <<ebErr, ebDeleteIssued>>
    /\ UNCHANGED <<ebCall, ebListed, ebIdx, ebName, ebDeferred, ebEnv, ebToken,
                   ebCreateCalls, ebCreated, tsBucket>>
    /\ UNCHANGED notEnsure

\* The next deployment of the app calls staticsEnsureBucketCreated again,
\* on a fresh machineDeployment, after a call that succeeded.
EnsureAgain ==
    /\ ebPc = "returned"
    /\ ebErr = "nil"
    /\ ebCall = 1
    /\ ebCall' = 2
    /\ ebPc' = "list"
    /\ ebListed' = <<>>
    /\ ebIdx' = 1
    /\ ebName' = <<>>
    /\ ebDeferred' = FALSE
    /\ ebEnv' = "none"
    /\ ebToken' = NoToken
    /\ ebAuth' = <<>>
    /\ ebCreateCalls' = <<>>
    /\ ebCreated' = {}
    /\ ebUpdateCalls' = 0
    /\ ebDeleteIssued' = {}
    /\ tsBucket' = <<>>
    /\ UNCHANGED <<addOns, ebErr>>
    /\ UNCHANGED notEnsure

NextEnsure ==
    \/ EnsureList
    \/ EnsureScan
    \/ EnsureGetOrg
    \/ EnsureProvision
    \/ EnsureTokenize
    \/ EnsureUpdate
    \/ EnsureAgain

(***************************************************************************)
(* staticsFinalize                                                         *)
(***************************************************************************)
IdleFinalize ==
    /\ finRet = "none"
    /\ finLogged = FALSE

\* staticsFinalize is called after a deployment whose push succeeded; it
\* calls deleteOldStatics(ctx, AppName, releaseVersion).
FinalizeStart ==
    /\ pushPc = "returned"
    /\ pushErr = "nil"
    /\ retPc = "idle"
    /\ retPc' = "list"
    /\ retCur' = pushVer
    /\ retBucket0' = bucket
    /\ UNCHANGED <<bucket, retVersions, retIdx, retIgnore, retErr, retIssued,
                   retListed, finVars>>
    /\ UNCHANGED notFinalize

\* `return nil`, whatever deleteOldStatics returned.
staticsFinalizeResult_Err(err) == err
staticsFinalizeResult(err) == "nil"

\* deleteOldStatics has returned: its error is written to ErrOut, and
\* staticsFinalize returns.
FinalizeReturn ==
    /\ retPc = "returned"
    /\ finRet = "none"
    /\ finLogged' = (retErr # "nil")
    /\ finRet' = staticsFinalizeResult(retErr)
    /\ UNCHANGED <<bucketVars, retVars>>
    /\ UNCHANGED notFinalize

NextDeploy ==
    \/ NextPush
    \/ FinalizeStart
    \/ NextRetention
    \/ FinalizeReturn

(***************************************************************************)
(* Specifications                                                          *)
(***************************************************************************)
InitSpecScale ==
    /\ InitScale
    /\ IdleBucket /\ IdleUpload /\ IdleRetention /\ IdleCandidate /\ IdlePush
    /\ IdleTs /\ IdleEnsure
    /\ IdleFinalize /\ IdleRace /\ IdleDelete
SpecScale == InitSpecScale /\ [][NextScale]_vars

InitSpecUpload ==
    /\ InitUpload
    /\ IdleScale /\ IdleRetention /\ IdleCandidate /\ IdlePush /\ IdleTs /\ IdleEnsure
    /\ IdleFinalize /\ IdleRace /\ IdleDelete
SpecUpload == InitSpecUpload /\ [][NextUpload]_vars

InitSpecRetention ==
    /\ InitRetention
    /\ IdleScale /\ IdleUpload /\ IdleCandidate /\ IdlePush /\ IdleTs /\ IdleEnsure
    /\ IdleFinalize /\ IdleRace /\ IdleDelete
SpecRetention == InitSpecRetention /\ [][NextRetention]_vars

InitSpecCandidate ==
    /\ InitCandidate
    /\ IdleScale /\ IdleBucket /\ IdleUpload /\ IdleRetention /\ IdlePush /\ IdleTs
    /\ IdleEnsure
    /\ IdleFinalize /\ IdleRace /\ IdleDelete
SpecCandidate == InitSpecCandidate /\ [][NextCandidate]_vars

InitSpecPush ==
    /\ InitPush
    /\ IdleScale /\ IdleUpload /\ IdleRetention /\ IdleCandidate /\ IdleEnsure
    /\ IdleFinalize /\ IdleRace /\ IdleDelete
SpecPush == InitSpecPush /\ [][NextPush]_vars

InitSpecEnsure ==
    /\ InitEnsure
    /\ IdleScale /\ IdleBucket /\ IdleUpload /\ IdleRetention /\ IdleCandidate
    /\ IdlePush
    /\ IdleFinalize /\ IdleRace /\ IdleDelete
SpecEnsure == InitSpecEnsure /\ [][NextEnsure]_vars

InitSpecDeploy ==
    /\ InitPush
    /\ IdleScale /\ IdleUpload /\ IdleRetention /\ IdleCandidate /\ IdleEnsure
    /\ IdleFinalize /\ IdleRace /\ IdleDelete
SpecDeploy == InitSpecDeploy /\ [][NextDeploy]_vars

InitSpecRace ==
    /\ InitRace
    /\ IdleScale /\ IdleUpload /\ IdleCandidate /\ IdlePush /\ IdleTs /\ IdleEnsure
    /\ IdleFinalize /\ IdleDelete
SpecRace == InitSpecRace /\ [][NextRace]_vars

InitSpecDelete ==
    /\ InitDelete
    /\ IdleScale /\ IdleUpload /\ IdleRetention /\ IdleCandidate /\ IdlePush /\ IdleTs
    /\ IdleEnsure /\ IdleFinalize /\ IdleRace
SpecDelete == InitSpecDelete /\ [][NextDelete]_vars

(***************************************************************************)
(* Claims                                                                  *)
(***************************************************************************)
\* C1: once AcquireLeases has returned, every way v2ScaleVM stops has run the
\* release function: no execution ends with a machine still holding a lease
\* that this call acquired.
C1_LeasesReleasedOnEveryExit ==
    scPc \in ScaleStopped => \A m \in MachineIds : lease[m] # "self"

\* The keys an upload of the local files to a destination is to leave there.
WantedKeys(dest, files) == {PutKey(dest, files[i]) : i \in 1..Len(files)}
SomeWorkerFailed == \E w \in Workers : wErr[w] # "nil"

\* C2: if at least one worker failed, uploadDirectory returns a non-nil error,
\* and that error is one a worker observed; it never returns nil after a
\* worker has failed.
C2_WorkerFailureIsReturned ==
    (upPc = "returned" /\ SomeWorkerFailed) =>
        /\ upRet # "nil"
        /\ \E w \in Workers : upRet = wErr[w]

\* C3: whatever was under the destination prefix before, a successful
\* uploadDirectory leaves under it exactly the keys of the local files.
C3_PushLeavesExactlyLocalFiles ==
    (upPc = "returned" /\ upRet = "nil") =>
        KeysUnder(bucket, UpDest) = WantedKeys(UpDest, upFiles)

\* C8: once the shared cancellation has been triggered by a failed worker, no
\* worker takes a further file from the work queue. (A PutObject issued on
\* the cancelled context stores nothing: WorkerPutDone.)
C8_NoNewWorkAfterCancel == upLate = {}

\* The release versions with at least one object in a bucket, the valid ones
\* (not above currentVer) when deleteOldStatics was called, and the n largest
\* numbers of a set.
VersionsIn(b) == {v \in Versions : KeysUnder(b, VersionDir(AppName, v)) # {}}
ValidAtCall == {v \in VersionsIn(retBucket0) : v <= retCur}
Largest(S, n) == {v \in S : Cardinality({u \in S : u > v}) < n}

\* C4: when deleteOldStatics returns nil and more than 3 distinct versions
\* <= currentVer were present, the version directories remaining are exactly
\* the 3 largest versions <= currentVer.
C4_RetentionExact ==
    (retPc = "returned" /\ retErr = "nil" /\ Cardinality(ValidAtCall) > 3) =>
        VersionsIn(bucket) = Largest(ValidAtCall, 3)

C6_RetentionNeverOverDeletes ==
    /\ retIssued \cap Largest(ValidAtCall, 3) = {}
    /\ KeysUnder(bucket, AppPrefix(AppName) \o <<"t", "/">>)
          = KeysUnder(retBucket0, AppPrefix(AppName) \o <<"t", "/">>)
    /\ retErr \in {"none", "nil", "list", "delete"}

\* C6 witness: with a non-version directory present and more than 3 valid
\* versions, the call has returned nil after deleting an old version.
C6_Witness ==
    /\ retPc = "returned" /\ retErr = "nil"
    /\ OtherDir \subseteq retBucket0
    /\ Cardinality(ValidAtCall) > 3
    /\ \E v \in retIssued : v <= retCur

\* C7: staticIsCandidateForTigrisPush(s) is true exactly when s has an empty
\* bound bucket name and a non-empty guest path that does not begin with "/".
C7_CandidateSelection ==
    candDone =>
        (candResult <=>
            /\ candStatic.TigrisBucket = <<>>
            /\ candStatic.GuestPath # <<>>
            /\ Head(candStatic.GuestPath) # "/")

\* C7 witness: a relative guest path bound to a bucket was refused.
C7_Witness ==
    /\ candDone /\ ~candResult
    /\ candStatic.GuestPath = <<"a", "s">>
    /\ candStatic.TigrisBucket = <<"b">>

\* C9: staticsPush calls staticsCleanupAfterFailure, which deletes the whole
\* version directory, exactly once when it returns an error or a panic
\* passes through it and never when it returns nil; the cleanup runs under
\* its own context, not the push's; a panic is raised again after it.
C9_CleanupExactlyOnFailure ==
    /\ pushCleanups <= 1
    /\ pushPc = "returned" => (pushCleanups = 1 <=> pushErr # "nil")
    /\ pushPc = "panicked" => pushCleanups = 1
    /\ pushPc \in {"returned", "panicked"} => (pushPanic <=> pushPc = "panicked")
    /\ pushCleanups = 1 =>
          /\ pushCleanupDir = StaticsRoot(AppName, pushVer)
          /\ pushCleanupErr # "ctx"

\* C9 witness: the context was cancelled after the first candidate had been
\* pushed, the push returned an error, and the cleanup removed the whole
\* version directory.
C9_Witness ==
    /\ pushPc = "returned" /\ pushErr # "nil" /\ pushCtxDone
    /\ staticNum = 2
    /\ pushCleanups = 1 /\ pushCleanupErr = "nil"
    /\ KeysUnder(bucket, StaticsRoot(AppName, pushVer) \o <<"/">>) = {}

\* The extension of a name has the app id and the sealed credential in its
\* metadata.
HasStaticsMeta(name) ==
    \E i \in 1..Len(addOns) :
        /\ addOns[i].name = name
        /\ addOns[i].meta.kind = "map"
        /\ addOns[i].meta.appId = "this"
        /\ addOns[i].meta.auth = "tok"

\* C10 (refuted by a panic after the extension was created): no execution of staticsEnsureBucketCreated ends in failure (an error
\* or a panic) with an extension it created that has no app-id and
\* sealed-credential metadata and for which no delete was issued.
C10_RollbackOnFailure ==
    ((ebPc = "returned" /\ ebErr # "nil") \/ ebPc = "panicked") =>
        \A name \in ebCreated : HasStaticsMeta(name) \/ name \in ebDeleteIssued

\* The case of C10: an extension was created and a later step failed.
C10_FailedAfterCreate ==
    /\ ebCreated # {}
    /\ (ebPc = "returned" /\ ebErr # "nil") \/ ebPc = "panicked"

\* Every failure that is returned as an error does roll back.
C10_ReturnedErrorRollsBack ==
    (ebPc = "returned" /\ ebErr # "nil") =>
        \A name \in ebCreated : name \in ebDeleteIssued

\* The listed extensions whose metadata names this app and holds a sealed
\* credential.
ListedOurs ==
    {i \in 1..Len(ebListed) :
        /\ ebListed[i].meta.kind = "map"
        /\ ebListed[i].meta.appId = "this"
        /\ ebListed[i].meta.auth = "tok"}

EnsureEnded == ebPc \in {"returned", "panicked"}

\* Nothing was created, minted or written by this call.
ProvisionedNothing ==
    /\ ebCreateCalls = <<>>
    /\ ebCreated = {}
    /\ ebToken = NoToken
    /\ ebUpdateCalls = 0
    /\ ebDeleteIssued = {}

\* C11 (refuted through C13's panics): when the listing holds an extension
\* whose metadata names this app, staticsEnsureBucketCreated returns that
\* extension's stored credential, records its name as the bucket, and
\* creates, mints and writes nothing.
C11_FastPath ==
    (EnsureEnded /\ ListedOurs # {}) =>
        /\ ebPc = "returned" /\ ebErr = "nil"
        /\ \E i \in ListedOurs :
              /\ ebAuth = <<"tok", ebListed[i].name>>
              /\ tsBucket = ebListed[i].name
        /\ ProvisionedNothing
        /\ addOns = ebListed

\* Without a panic of the loop the fast path is as C11 says.
C11_FastPathUnlessPanic ==
    (ebPc = "returned" /\ ListedOurs # {}) =>
        /\ ebErr = "nil"
        /\ \E i \in ListedOurs :
              /\ ebAuth = <<"tok", ebListed[i].name>>
              /\ tsBucket = ebListed[i].name
        /\ ProvisionedNothing
        /\ addOns = ebListed

\* Whatever the call's end, a listing that holds an extension of this app
\* keeps the call from creating, minting or writing.
C11_FastPathFrame ==
    ListedOurs # {} => (ProvisionedNothing /\ addOns = ebListed)

\* A second call after a successful first call provisions nothing and, when
\* its listing succeeds, returns the stored credential.
C11_SecondCallProvisionsNothing ==
    ebCall = 2 =>
        /\ ProvisionedNothing
        /\ ebPc # "panicked"
        /\ ebPc = "returned" =>
              \/ ebErr = "list"
              \/ \E i \in ListedOurs :
                    ebAuth = <<"tok", ebListed[i].name>> /\ tsBucket = ebListed[i].name

\* C12: ProvisionExtension is called at most twice; the second call happens
\* only after a name collision of the first and uses <app>-statics with a
\* random suffix; another error is returned without a retry; after a failed
\* retry the first error is returned; after a successful retry the recorded
\* bucket, the rollback and the credential scope all use the suffixed name.
C12_CollisionRetry ==
    LET calls == ebCreateCalls
        base == AppName \o <<"-", "statics">>
    IN  /\ Len(calls) <= 2
        /\ Len(calls) >= 1 => calls[1].name = base
        /\ Len(calls) = 2 =>
              /\ calls[1].res = "taken"
              /\ \E h \in Haikus : calls[2].name = base \o <<"-", h>>
        /\ (Len(calls) >= 1 /\ calls[1].res = "other") =>
              /\ Len(calls) = 1
              /\ ebPc = "returned" /\ ebErr = "other" /\ ebCreated = {}
        /\ (Len(calls) = 2 /\ calls[2].res = "failed") =>
              /\ ebPc = "returned" /\ ebErr = "taken" /\ ebCreated = {}
        /\ (Len(calls) = 2 /\ calls[2].res = "ok") =>
              /\ tsBucket = calls[2].name
              /\ ebCreated = {calls[2].name}
              /\ ebDeleteIssued \subseteq {calls[2].name}
              /\ (ebPc = "returned" /\ ebErr # "nil") => ebDeleteIssued = {calls[2].name}
              /\ ebToken # NoToken =>
                    ebToken.hosts = {calls[2].name \o <<".", "fly.storage.tigris.dev">>}

\* C12 witness: the name was taken, the retry under a suffixed name
\* succeeded, the credential was sealed, and a later failure rolled the
\* suffixed extension back.
C12_Witness ==
    /\ Len(ebCreateCalls) = 2
    /\ ebCreateCalls[2].res = "ok"
    /\ ebToken # NoToken
    /\ ebPc = "returned" /\ ebErr = "update"
    /\ ebDeleteIssued = {ebCreateCalls[2].name}

\* C13 (refuted by the unchecked type assertions of the loop): no listed
\* extension, whatever its metadata, makes staticsEnsureBucketCreated fail;
\* a panic before any ProvisionExtension call is one raised by the loop.
C13_MalformedMetadataNeverFatal ==
    ~(ebPc = "panicked" /\ ebCreateCalls = <<>>)

\* Hosts a request may be sent to: the hosts of the buckets there are, and
\* the storage host itself.
RequestHosts ==
    {n \o <<".", "fly.storage.tigris.dev">> :
        n \in {addOns[i].name : i \in 1..Len(addOns)} \cup {AppName \o <<"-", "statics">>}}
      \cup {<<"fly.storage.tigris.dev">>}

\* tokenizer.AllowHosts: the request's host is one of the allowed hosts.
InScope(secret, host) == host \in secret.hosts

\* C14: a credential sealed by staticsTokenizeTigrisSecrets has the action
\* write, the organization and the app of the deployment, and exactly one
\* allowed host, <bucket>.fly.storage.tigris.dev, of the extension this call
\* created; requests to any other host are out of scope.
C14_CredentialScope ==
    ebToken # NoToken =>
        /\ ebToken.action = "write"
        /\ ebToken.org = "org"
        /\ ebToken.app = "this"
        /\ \E n \in ebCreated :
              /\ ebCreated = {n}
              /\ ebToken.hosts = {n \o <<".", "fly.storage.tigris.dev">>}
              /\ \A h \in RequestHosts :
                    InScope(ebToken, h) <=> h = n \o <<".", "fly.storage.tigris.dev">>

\* C14 witness: a credential sealed for the suffixed bucket after a retry,
\* written to the metadata, with other buckets on the platform.
C14_Witness ==
    /\ ebToken # NoToken
    /\ Len(ebCreateCalls) = 2
    /\ ebPc = "returned" /\ ebErr = "nil"
    /\ Len(addOns) >= 2
    /\ tsBucket # AppName \o <<"-", "statics">>

\* A static that is to be synchronised: no bucket of the user, a guest path
\* that is neither empty nor absolute.
IsSyncCandidate(e) ==
    /\ e.TigrisBucket = <<>>
    /\ e.GuestPath # <<>>
    /\ Head(e.GuestPath) # "/"

\* The bucket-backed entry that replaces the candidate at a position of the
\* original sequence: its subdirectory has the number of candidates before it.
BackedEntry(i) ==
    LET n == Cardinality({j \in 1..(i - 1) : IsSyncCandidate(origStatics[j])})
    IN  [GuestPath |-> <<"/", "F", "/">> \o AppName \o <<"/">> \o Itoa(pushVer)
                          \o <<"/">> \o Itoa(n) \o <<"/">>,
         UrlPrefix |-> origStatics[i].UrlPrefix,
         TigrisBucket |-> tsBucket,
         IndexDocument |-> origStatics[i].IndexDocument]

\* C17: after staticsInitialize and a successful staticsPush the statics of
\* the configuration are as many as before; the entries that were no
\* candidates are there unchanged and in their order; every candidate is
\* replaced by one entry with the guest path "/" + its version subdirectory,
\* the provisioned bucket, and its URL prefix and index document; no
\* candidate is left in its local form.
C17_ConfigurationRewrite ==
    (pushPc = "returned" /\ pushErr = "nil") =>
        /\ Len(cfgStatics) = Len(origStatics)
        /\ SelectSeq(cfgStatics, LAMBDA e : e.TigrisBucket # tsBucket)
              = SelectSeq(origStatics, LAMBDA e : ~IsSyncCandidate(e))
        /\ \A i \in 1..Len(origStatics) :
              IsSyncCandidate(origStatics[i]) =>
                 /\ Cardinality({j \in 1..Len(cfgStatics) : cfgStatics[j] = BackedEntry(i)}) = 1
                 /\ \A j \in 1..Len(cfgStatics) : cfgStatics[j] # origStatics[i]

\* C17 witness: a candidate listed before an entry bound to a bucket of the
\* user; the push succeeded and the bound entry now comes first.
C17_Witness ==
    /\ pushPc = "returned" /\ pushErr = "nil"
    /\ Len(origStatics) = 2
    /\ IsSyncCandidate(origStatics[1])
    /\ origStatics[2].TigrisBucket = <<"b">>
    /\ cfgStatics[1] = origStatics[2]
    /\ cfgStatics[2] = BackedEntry(1)

\* C18: uploadDirectory issues no PutObject before the listing and the
\* batched deletes of deleteDirectory(dest) have returned without an error;
\* when the clearing fails, that error is returned, no worker is started and
\* no PutObject is issued.
C18_ClearBeforePut ==
    /\ (\E f \in DOMAIN upPuts : upPuts[f] > 0) => upCleared
    /\ (\E w \in Workers : wPc[w] # "unborn") => upCleared
    /\ (upPc # "clear" /\ ~upCleared) =>
          /\ upPc = "returned"
          /\ upRet # "none" /\ upRet[1] \in {"list", "delete"}
          /\ \A f \in DOMAIN upPuts : upPuts[f] = 0

\* C18 witness: the clearing succeeded, removed stale objects, and a file was
\* put afterwards.
C18_Witness ==
    /\ upCleared
    /\ upPc = "returned"
    /\ \E f \in DOMAIN upPuts : upPuts[f] > 0
    /\ StaleKeys[1] \notin bucket

\* C19: staticsFinalize returns nil whether or not deleteOldStatics failed;
\* the error a failed staticsPush returns is the upload's error, whether the
\* cleanup of the version directory succeeded or failed.
C19_BestEffortNeverChangesOutcome ==
    /\ finRet \in {"none", "nil"}
    /\ (retPc = "returned" /\ finRet # "none") => finLogged = (retErr # "nil")
    /\ (pushPc = "returned" /\ pushCleanups = 1) => pushErr = "upload"

\* C19 witness: a directory delete of deleteOldStatics failed, and
\* staticsFinalize returned nil.
C19_Witness ==
    /\ retPc = "returned"
    /\ retErr = "delete"
    /\ finLogged
    /\ finRet = "nil"

\* The other case of C19: the upload failed, the cleanup failed too, and
\* staticsPush returned the upload's error.
C19_WitnessPush ==
    /\ pushPc = "returned"
    /\ pushErr = "upload"
    /\ pushCleanups = 1
    /\ pushCleanupErr \in {"list", "delete"}

\* C21 (refuted: a goroutine can stay blocked on `workerErr <- err`):
\* uploadDirectory returns and every worker goroutine finishes; a worker
\* whose error is not the first is not left blocked forever on reporting it.
\* Once uploadDirectory has returned nothing receives from workerErr, so a
\* goroutine waiting to send on the full channel never finishes.
C21_NoWorkerBlockedForever ==
    ~(/\ upPc = "returned"
      /\ Len(workerErr) = 1
      /\ \E w \in Workers : wPc[w] = "send")

\* No worker failed and uploadDirectory returned nil.
UploadedWithoutFailure ==
    /\ upPc = "returned"
    /\ upCleared
    /\ upRet = "nil"
    /\ \A w \in Workers : wErr[w] = "nil"

\* C22: no file is put twice; when no worker fails, uploadDirectory issues
\* exactly one PutObject for every regular file under the root and none for
\* a directory, under the key fly-statics/<app>/<version>/<index>/<path of
\* the file relative to the root>.
C22_ExactlyOnceUpload ==
    /\ \A f \in DOMAIN upPuts : upPuts[f] <= 1
    /\ UploadedWithoutFailure =>
          /\ \A f \in DOMAIN upPuts :
                /\ upPuts[f] = 1
                /\ <<"F", "/", "a", "/", "1", "/", "0", "/">> \o f \in bucket
                /\ f \notin bucket
          /\ \A d \in DirsOf(SeqRange(upFiles)) :
                <<"F", "/", "a", "/", "1", "/", "0", "/">> \o d \notin bucket

\* C22 witness: every local file, one of them in a subdirectory, was put
\* once and uploadDirectory returned nil.
C22_Witness ==
    /\ UploadedWithoutFailure
    /\ Len(upFiles) = MaxFiles
    /\ DirsOf(SeqRange(upFiles)) # {}
    /\ \A f \in DOMAIN upPuts : upPuts[f] = 1

CandidatesBefore(i) == {j \in 1..(i - 1) : IsSyncCandidate(origStatics[j])}

\* The subdirectory with a number under the root of the release being pushed.
NumberedDir(n) ==
    <<"F", "/">> \o AppName \o <<"/">> \o Itoa(pushVer) \o <<"/">> \o Itoa(n) \o <<"/">>

\* C25: while staticsPush loops, staticNum is the number of candidates before
\* the position reached (non-candidates consume no number); the bucket-backed
\* entries appended so far name the subdirectories 0, 1, ... in order; and a
\* step of the loop that handles the candidate numbered n changes no object
\* outside <root>/<n>/: neither its clearing nor its upload touches what is
\* stored for another candidate.
C25_NumberedSubdirectories ==
    /\ [](pushPc = "push" =>
            /\ staticNum = Cardinality(CandidatesBefore(pushIdx))
            /\ LET backed == SelectSeq(cfgStatics, LAMBDA e : e.TigrisBucket = tsBucket)
               IN  /\ Len(backed) = staticNum
                   /\ \A n \in 1..Len(backed) :
                         backed[n].GuestPath = <<"/">> \o NumberedDir(n - 1))
    /\ [][pushPc = "push" =>
            \A k \in bucket \cup bucket' :
                ~HasPrefix(k, NumberedDir(staticNum)) => (k \in bucket <=> k \in bucket')]_vars

\* C25 witness: two candidates were uploaded; the second one's clearing
\* removed the stale object of <root>/1/ and left in <root>/0/ what the first
\* one had stored.
C25_Witness ==
    /\ pushPc = "push" /\ pushIdx = 3 /\ staticNum = 2
    /\ NumberedDir(0) \o <<"w">> \in bucket
    /\ NumberedDir(1) \o <<"w">> \in bucket
    /\ NumberedDir(0) \o <<"y">> \notin bucket
    /\ NumberedDir(1) \o <<"y">> \notin bucket
    /\ SmallDir(1) \subseteq bucket

\* The other case of C25: a static that is no candidate came first and took
\* no number; the candidate after it was uploaded to <root>/0/.
C25_WitnessSkipped ==
    /\ pushPc = "push" /\ pushIdx = 3 /\ staticNum = 1
    /\ ~IsSyncCandidate(origStatics[1])
    /\ NumberedDir(0) \o <<"w">> \in bucket
    /\ cfgStatics[Len(cfgStatics)].GuestPath = <<"/">> \o NumberedDir(0)

\* deleteDirectory has returned having deleted this key.
Deleted(k) == delPc = "returned" /\ k \in delBefore /\ k \notin bucket

\* The key lies in the directory: it begins with the directory's name and
\* goes on at a "/", the directory's own when its name ends with one.
KeyInDir(k, dir) ==
    /\ Len(k) > Len(dir)
    /\ SubSeq(k, 1, Len(dir)) = dir
    /\ dir[Len(dir)] = "/" \/ k[Len(dir) + 1] = "/"

\* C26: deleteDirectory(dir) adds no object and deletes only objects whose key
\* begins with dir followed by "/"; called with release 1's directory it
\* deletes no object of releases 10 and 11 nor of an application whose name
\* begins with this one's.
C26_PrefixIsolation ==
    /\ bucket \subseteq delBefore \/ delPc # "returned"
    /\ \A k \in DeleteKeys : Deleted(k) => KeyInDir(k, delDir)
    /\ (delPc = "returned" /\ delDir \in {<<"F", "/", "a", "/", "1">>, <<"F", "/", "a", "/", "1", "/">>})
          => \A k \in {<<"F", "/", "a", "/", "1", "0", "/", "0", "/", "x">>,
                       <<"F", "/", "a", "/", "1", "1", "/", "0", "/", "x">>,
                       <<"F", "/", "a", "b", "/", "1", "/", "0", "/", "x">>} :
                k \in delBefore => k \in bucket

\* C26 witness: called with the root of release 1, without a trailing "/",
\* beside the objects of releases 10 and 11 and of application "ab",
\* deleteDirectory returned nil; release 1's objects are gone, the others stay.
C26_Witness ==
    /\ delPc = "returned" /\ delErr = "nil"
    /\ delDir = <<"F", "/", "a", "/", "1">>
    /\ delBefore = DeleteKeys \ {<<"F", "/", "a", "/", "2", "/", "0", "/", "x">>}
    /\ bucket = delBefore \ {<<"F", "/", "a", "/", "1", "/", "0", "/", "x">>,
                             <<"F", "/", "a", "/", "1", "/", "1", "/", "x">>}

\* C27: in every state of deleteOldStatics(app, currentVer), whatever versions
\* are present, no directory delete has been issued for currentVer, and the
\* objects of currentVer's directory are those that were there at the call.
C27_CurrentReleaseSurvives ==
    /\ retCur \notin retIssued
    /\ retPc # "idle" =>
          KeysUnder(bucket, VersionDir(AppName, retCur))
             = KeysUnder(retBucket0, VersionDir(AppName, retCur))

\* C27 witness: currentVer was listed as the largest of more than 3 versions;
\* the call returned nil having deleted an older one, and currentVer's
\* objects are in the bucket.
C27_Witness ==
    /\ retPc = "returned" /\ retErr = "nil"
    /\ retCur \in retListed
    /\ Cardinality({v \in retListed : v <= retCur}) > 3
    /\ \E v \in retIssued : v < retCur
    /\ SmallDir(retCur) \subseteq bucket

\* The other case of C27: a later version was listed beside currentVer and
\* deleted as too new; currentVer's objects are in the bucket.
C27_WitnessTooNew ==
    /\ retPc = "returned" /\ retErr = "nil"
    /\ retCur \in retListed
    /\ \E v \in retIssued : v > retCur
    /\ SmallDir(retCur) \subseteq bucket

\* C28 (refuted: the entries of the candidates uploaded before the failure
\* stay in the configuration): when staticsPush has returned an error and its
\* cleanup has deleted the version directory, no static of the configuration
\* is backed by the provisioned bucket with a guest path under that directory.
C28_NoDanglingStaticEntries ==
    (/\ pushPc = "returned" /\ pushErr # "nil"
     /\ pushCleanups = 1 /\ pushCleanupErr = "nil")
        => \A i \in 1..Len(cfgStatics) :
              ~(/\ cfgStatics[i].TigrisBucket = tsBucket
                /\ HasPrefix(cfgStatics[i].GuestPath,
                             <<"/">> \o pushCleanupDir \o <<"/">>))

====
